---- MODULE Spec2Model ----
(***************************************************************************)
(* Model of dusk-hamt: a hash array mapped trie with branching factor 4.   *)
(* A Hamt is an array of 4 buckets; a bucket is Empty, a Leaf holding a    *)
(* KvPair, or a Node holding a Link to a child Hamt together with the      *)
(* child's lazily cached annotation (Cardinality).                         *)
(***************************************************************************)
EXTENDS Integers, Sequences, FiniteSets, TLC

\* ---- bounds of the model ------------------------------------------------
\* keys are 0..MaxKey
MaxKey == 4
\* number of nested _insert frames the stack holds before it overflows
MaxDepth == 3
\* the number of bits of a digest
Width == 5

Keys == 0..MaxKey
\* the two values of the replace test
Vals == {0, 38}
\* ranks asked of nth: the map never holds more than MaxKey keys, since two
\* of the MaxKey + 1 keys have the same digest
Ranks == 0..MaxKey

\* Option<T>: None is the empty sequence, Some(x) the singleton
None == <<>>
Some(x) == <<x>>

\* ---- hashing -------------------------------------------------------------
\* Stand-in for SeaHasher on a small domain: a fixed deterministic mixing
\* function.  It is not injective: keys 2 and 3 have the same digest.
hash(t) == (t * t * t + 7 * t + 3) % 13

\* u64 is modelled Width bits wide: the digests are 0..U64_MAX
U64_MAX == 2 ^ Width - 1

\* `from + depth as u64` leaves the range of u64
slot_overflows(from, depth) == from + depth > U64_MAX

\* slot, as a build without overflow checks computes it: the sum wraps
slot(from, depth) ==
    LET derived == hash((from + depth) % (U64_MAX + 1))
    IN  derived % 4

\* ---- buckets and nodes ---------------------------------------------------
Empty == [kind |-> "Empty"]
Leaf(k, v) == [kind |-> "Leaf", key |-> k, val |-> v]

\* Bucket::default / Hamt::default / Hamt::new: four Empty buckets.
\* Bucket i of the source is element i + 1 of the tuple.
HamtNew == <<Empty, Empty, Empty, Empty>>

\* Link::new: owns the child, no annotation computed yet
LinkNew(node) == [kind |-> "Node", node |-> node, anno |-> None]

\* Link::inner_mut: mutable access to the child drops the cached annotation
inner_mut(link) == [link EXCEPT !.anno = None]

\* Bucket::take leaves Empty behind
take(self, s) == [self EXCEPT ![s + 1] = Empty]

\* ---- insert --------------------------------------------------------------
\* Result of _insert: the node after the call, the returned Option, and
\* ok = FALSE when the recursion ran out of stack.
RECURSIVE _insert(_, _, _, _, _)

\* (mutant) an _insert that puts the old pair back when the key is there
_insert_keepsOld(self, key, val, digest, depth) ==
    IF depth > MaxDepth
    THEN [node |-> self, ret |-> None, ok |-> FALSE]
    ELSE
    LET s == slot(digest, depth)
        bucket == self[s + 1]
        taken == take(self, s)
    IN  CASE bucket.kind = "Empty" ->
               [node |-> [taken EXCEPT ![s + 1] = Leaf(key, val)],
                ret |-> None, ok |-> TRUE]
          [] bucket.kind = "Leaf" ->
               IF key = bucket.key
               THEN [node |-> self, ret |-> Some(bucket.val), ok |-> TRUE]
               ELSE LET old_digest == hash(bucket.key)
                        r1 == _insert(HamtNew, key, val, digest, depth + 1)
                        r2 == _insert(r1.node, bucket.key, bucket.val,
                                      old_digest, depth + 1)
                    IN  IF r1.ok /\ r2.ok
                        THEN [node |-> [taken EXCEPT
                                           ![s + 1] = LinkNew(r2.node)],
                              ret |-> None, ok |-> TRUE]
                        ELSE [node |-> self, ret |-> None, ok |-> FALSE]
          [] bucket.kind = "Node" ->
               LET link == inner_mut(bucket)
                   r == _insert(link.node, key, val, digest, depth + 1)
               IN  IF r.ok
                   THEN [node |-> [taken EXCEPT
                                      ![s + 1] = [link EXCEPT !.node = r.node]],
                         ret |-> r.ret, ok |-> TRUE]
                   ELSE [node |-> self, ret |-> None, ok |-> FALSE]

\* (mutant) an _insert that enters the child of a Link without advancing
\* the depth
_insert_sameDepth(self, key, val, digest, depth) ==
    IF depth > MaxDepth
    THEN [node |-> self, ret |-> None, ok |-> FALSE]
    ELSE
    LET s == slot(digest, depth)
        bucket == self[s + 1]
        taken == take(self, s)
    IN  CASE bucket.kind = "Empty" ->
               [node |-> [taken EXCEPT ![s + 1] = Leaf(key, val)],
                ret |-> None, ok |-> TRUE]
          [] bucket.kind = "Leaf" ->
               IF key = bucket.key
               THEN [node |-> [taken EXCEPT ![s + 1] = Leaf(key, val)],
                     ret |-> Some(bucket.val), ok |-> TRUE]
               ELSE LET old_digest == hash(bucket.key)
                        r1 == _insert(HamtNew, key, val, digest, depth + 1)
                        r2 == _insert(r1.node, bucket.key, bucket.val,
                                      old_digest, depth + 1)
                    IN  IF r1.ok /\ r2.ok
                        THEN [node |-> [taken EXCEPT
                                           ![s + 1] = LinkNew(r2.node)],
                              ret |-> None, ok |-> TRUE]
                        ELSE [node |-> self, ret |-> None, ok |-> FALSE]
          [] bucket.kind = "Node" ->
               LET link == inner_mut(bucket)
                   r == _insert(link.node, key, val, digest, depth)
               IN  IF r.ok
                   THEN [node |-> [taken EXCEPT
                                      ![s + 1] = [link EXCEPT !.node = r.node]],
                         ret |-> r.ret, ok |-> TRUE]
                   ELSE [node |-> self, ret |-> None, ok |-> FALSE]

\* (mutant) a split that puts only the incoming pair into the fresh node
_insert_splitDropsOld(self, key, val, digest, depth) ==
    IF depth > MaxDepth
    THEN [node |-> self, ret |-> None, ok |-> FALSE]
    ELSE
    LET s == slot(digest, depth)
        bucket == self[s + 1]
        taken == take(self, s)
    IN  CASE bucket.kind = "Empty" ->
               [node |-> [taken EXCEPT ![s + 1] = Leaf(key, val)],
                ret |-> None, ok |-> TRUE]
          [] bucket.kind = "Leaf" ->
               IF key = bucket.key
               THEN [node |-> [taken EXCEPT ![s + 1] = Leaf(key, val)],
                     ret |-> Some(bucket.val), ok |-> TRUE]
               ELSE LET old_digest == hash(bucket.key)
                        r1 == _insert(HamtNew, key, val, digest, depth + 1)
                        r2 == r1
                    IN  IF r1.ok /\ r2.ok
                        THEN [node |-> [taken EXCEPT
                                           ![s + 1] = LinkNew(r2.node)],
                              ret |-> None, ok |-> TRUE]
                        ELSE [node |-> self, ret |-> None, ok |-> FALSE]
          [] bucket.kind = "Node" ->
               LET link == inner_mut(bucket)
                   r == _insert(link.node, key, val, digest, depth + 1)
               IN  IF r.ok
                   THEN [node |-> [taken EXCEPT
                                      ![s + 1] = [link EXCEPT !.node = r.node]],
                         ret |-> r.ret, ok |-> TRUE]
                   ELSE [node |-> self, ret |-> None, ok |-> FALSE]

_insert(self, key, val, digest, depth) ==
    IF depth > MaxDepth
    THEN [node |-> self, ret |-> None, ok |-> FALSE]
    ELSE
    LET s == slot(digest, depth)
        bucket == self[s + 1]
        taken == take(self, s)
    IN  CASE bucket.kind = "Empty" ->
               [node |-> [taken EXCEPT ![s + 1] = Leaf(key, val)],
                ret |-> None, ok |-> TRUE]
          [] bucket.kind = "Leaf" ->
               IF key = bucket.key
               THEN [node |-> [taken EXCEPT ![s + 1] = Leaf(key, val)],
                     ret |-> Some(bucket.val), ok |-> TRUE]
               ELSE LET old_digest == hash(bucket.key)
                        r1 == _insert(HamtNew, key, val, digest, depth + 1)
                        r2 == _insert(r1.node, bucket.key, bucket.val,
                                      old_digest, depth + 1)
                    IN  IF r1.ok /\ r2.ok
                        THEN [node |-> [taken EXCEPT
                                           ![s + 1] = LinkNew(r2.node)],
                              ret |-> None, ok |-> TRUE]
                        ELSE [node |-> self, ret |-> None, ok |-> FALSE]
          [] bucket.kind = "Node" ->
               LET link == inner_mut(bucket)
                   r == _insert(link.node, key, val, digest, depth + 1)
               IN  IF r.ok
                   THEN [node |-> [taken EXCEPT
                                      ![s + 1] = [link EXCEPT !.node = r.node]],
                         ret |-> r.ret, ok |-> TRUE]
                   ELSE [node |-> self, ret |-> None, ok |-> FALSE]

insert(self, key, val) ==
    LET digest == hash(key)
    IN  _insert(self, key, val, digest, 0)

\* ---- remove --------------------------------------------------------------
\* (mutant) a collapse that never promotes the last leaf
collapse_never(self) == None

\* (mutant) a collapse that looks for the last pair in the first bucket only
collapse_firstOnly(self) ==
    IF self[1].kind = "Leaf"
          /\ Cardinality({i \in 1..4 : self[i].kind = "Empty"}) = 3
    THEN Some(<<self[1].key, self[1].val>>)
    ELSE None

\* Hamt::collapse: a node holding exactly one Leaf and three Empty buckets
\* gives up that pair.
collapse(self) ==
    LET leaves == {i \in 1..4 : self[i].kind = "Leaf"}
        empties == {i \in 1..4 : self[i].kind = "Empty"}
    IN  IF Cardinality(leaves) = 1 /\ Cardinality(empties) = 3
        THEN LET i == CHOOSE j \in leaves : TRUE
             IN  Some(<<self[i].key, self[i].val>>)
        ELSE None

\* Result of _remove: the node after the call and the returned Option.
\* The bucket is taken (replaced by Empty) before the match; only the Node
\* arm writes a bucket back.
RECURSIVE _remove(_, _, _, _)

\* (mutant) a _remove that drops the result of the recursive call
_remove_dropsResult(self, key, digest, depth) ==
    LET s == slot(digest, depth)
        bucket == self[s + 1]
        taken == take(self, s)
    IN  CASE bucket.kind = "Empty" -> [node |-> taken, ret |-> None]
          [] bucket.kind = "Leaf" ->
               IF key = bucket.key
               THEN [node |-> taken, ret |-> Some(bucket.val)]
               ELSE [node |-> taken, ret |-> None]
          [] bucket.kind = "Node" ->
               LET link == inner_mut(bucket)
                   r == _remove(link.node, key, digest, depth + 1)
                   c == collapse(r.node)
               IN  IF c # None
                   THEN [node |-> [taken EXCEPT
                                      ![s + 1] = Leaf(c[1][1], c[1][2])],
                         ret |-> None]
                   ELSE [node |-> [taken EXCEPT
                                      ![s + 1] = [link EXCEPT !.node = r.node]],
                         ret |-> None]

\* (mutant) a _remove that keeps the Link when the child has collapsed
_remove_keepsLink(self, key, digest, depth) ==
    LET s == slot(digest, depth)
        bucket == self[s + 1]
        taken == take(self, s)
    IN  CASE bucket.kind = "Empty" -> [node |-> taken, ret |-> None]
          [] bucket.kind = "Leaf" ->
               IF key = bucket.key
               THEN [node |-> taken, ret |-> Some(bucket.val)]
               ELSE [node |-> taken, ret |-> None]
          [] bucket.kind = "Node" ->
               LET link == inner_mut(bucket)
                   r == _remove(link.node, key, digest, depth + 1)
                   c == collapse(r.node)
               IN  IF c # None
                   THEN [node |-> [taken EXCEPT
                                      ![s + 1] = [link EXCEPT !.node = r.node]],
                         ret |-> r.ret]
                   ELSE [node |-> [taken EXCEPT
                                      ![s + 1] = [link EXCEPT !.node = r.node]],
                         ret |-> r.ret]

_remove(self, key, digest, depth) ==
    LET s == slot(digest, depth)
        bucket == self[s + 1]
        taken == take(self, s)
    IN  CASE bucket.kind = "Empty" -> [node |-> taken, ret |-> None]
          [] bucket.kind = "Leaf" ->
               IF key = bucket.key
               THEN [node |-> taken, ret |-> Some(bucket.val)]
               ELSE [node |-> taken, ret |-> None]
          [] bucket.kind = "Node" ->
               LET link == inner_mut(bucket)
                   r == _remove(link.node, key, digest, depth + 1)
                   c == collapse(r.node)
               IN  IF c # None
                   THEN [node |-> [taken EXCEPT
                                      ![s + 1] = Leaf(c[1][1], c[1][2])],
                         ret |-> r.ret]
                   ELSE [node |-> [taken EXCEPT
                                      ![s + 1] = [link EXCEPT !.node = r.node]],
                         ret |-> r.ret]

remove(self, key) ==
    LET digest == hash(key)
    IN  _remove(self, key, digest, 0)

\* ---- traversal -----------------------------------------------------------
\* (mutant) a child that ends the node one bucket early
child_short(self, ofs) ==
    IF ofs < 3
    THEN LET b == self[ofs + 1]
         IN  CASE b.kind = "Empty" -> [kind |-> "Empty"]
               [] b.kind = "Leaf" -> [kind |-> "Leaf", kv |-> b]
               [] b.kind = "Node" -> [kind |-> "Link", nd |-> b]
    ELSE [kind |-> "End"]

\* Compound::child: the view of bucket ofs handed to a walker
child(self, ofs) ==
    IF ofs < 4
    THEN LET b == self[ofs + 1]
         IN  CASE b.kind = "Empty" -> [kind |-> "Empty"]
               [] b.kind = "Leaf" -> [kind |-> "Leaf", kv |-> b]
               [] b.kind = "Node" -> [kind |-> "Link", nd |-> b]
    ELSE [kind |-> "End"]

\* (mutant) a path walker whose depth never advances
PathWalker_walk_stuck(level, digest, depth) ==
    LET s == slot(digest, depth)
        c == child(level, s)
    IN  IF c.kind = "Leaf" \/ c.kind = "Link"
        THEN [step |-> "Found", ofs |-> s, depth |-> depth]
        ELSE [step |-> "Abort", ofs |-> s, depth |-> depth]

\* (mutant) a path walker that advances its depth before computing the slot
PathWalker_walk_advancesFirst(level, digest, depth) ==
    LET s == slot(digest, depth + 1)
        c == child(level, s)
    IN  IF c.kind = "Leaf" \/ c.kind = "Link"
        THEN [step |-> "Found", ofs |-> s, depth |-> depth + 1]
        ELSE [step |-> "Abort", ofs |-> s, depth |-> depth + 1]

\* PathWalker::walk at a level, the walker being at `depth`: a Leaf and a
\* Link (probed as its annotation) both answer Found(slot).  The depth of
\* the walker after the call is part of the result.
PathWalker_walk(level, digest, depth) ==
    LET s == slot(digest, depth)
        c == child(level, s)
    IN  IF c.kind = "Leaf" \/ c.kind = "Link"
        THEN [step |-> "Found", ofs |-> s, depth |-> depth + 1]
        ELSE [step |-> "Abort", ofs |-> s, depth |-> depth + 1]

\* The branch engine driving a PathWalker from a node: Found on a Leaf ends
\* the walk with that leaf, Found or Into on a Link descends into the child
\* and asks the walker again (at the depth its last call left), Abort ends
\* the walk with nothing.
RECURSIVE walk_path(_, _, _)
walk_path(self, digest, depth) ==
    LET st == PathWalker_walk(self, digest, depth)
    IN  IF st.step = "Abort"
        THEN None
        ELSE LET c == child(self, st.ofs)
             IN  CASE c.kind = "Leaf" -> Some(c.kv)
                   [] c.kind = "Link" ->
                        walk_path(c.nd.node, digest, st.depth)
                   [] OTHER -> None

\* Lookup::get: the leaf the path walker reaches is kept when the digest of
\* its key equals the digest of the key asked for, and mapped to its value.
get(self, key) ==
    LET b == walk_path(self, hash(key), 0)
    IN  IF b # None /\ hash(b[1].key) = hash(key)
        THEN Some(b[1].val)
        ELSE None

\* ---- get_mut -------------------------------------------------------------
\* The branch engine driving a PathWalker for mutable access: the offsets of
\* the path from the node to the leaf reached, None when the walk aborts.
RECURSIVE walk_mut(_, _, _)
walk_mut(self, digest, depth) ==
    LET st == PathWalker_walk(self, digest, depth)
    IN  IF st.step = "Abort"
        THEN None
        ELSE LET c == child(self, st.ofs)
             IN  CASE c.kind = "Leaf" -> Some(<<st.ofs>>)
                   [] c.kind = "Link" ->
                        LET r == walk_mut(c.nd.node, digest, st.depth)
                        IN  IF r = None
                            THEN None
                            ELSE Some(<<st.ofs>> \o r[1])
                   [] OTHER -> None

\* BranchMut::leaf_mut: the leaf at the end of a path
RECURSIVE leaf_mut(_, _)
leaf_mut(self, path) ==
    IF Len(path) = 1
    THEN self[path[1] + 1]
    ELSE leaf_mut(self[path[1] + 1].node, Tail(path))

\* Hamt::get_mut: the branch the path walker reaches is kept when the digest
\* of its leaf's key equals the digest of the key asked for; the handle is
\* that branch mapped to the leaf's value.
get_mut(self, key) ==
    LET b == walk_mut(self, hash(key), 0)
    IN  IF b # None /\ hash(leaf_mut(self, b[1]).key) = hash(key)
        THEN b
        ELSE None

\* (mutant) a handle that hands out a copy of the value: the write is lost
RECURSIVE deref_mut_copy(_, _, _)
deref_mut_copy(self, path, v) == self

\* DerefMut for ValueMut followed by an assignment: the value of the leaf
\* at the end of the branch is overwritten; the links of the branch were
\* entered for mutation.
RECURSIVE deref_mut(_, _, _)
deref_mut(self, path, v) ==
    LET b == self[path[1] + 1]
    IN  IF Len(path) = 1
        THEN [self EXCEPT ![path[1] + 1] = [b EXCEPT !.val = v]]
        ELSE [self EXCEPT ![path[1] + 1] =
                 [inner_mut(b) EXCEPT
                     !.node = deref_mut(b.node, Tail(path), v)]]

\* ---- annotation ----------------------------------------------------------
\* Annotation::from_child for Cardinality: Empty adds nothing, a Leaf one,
\* a Node the annotation of its link.  Link::anno answers the cached value
\* when there is one and computes it from the child otherwise.
RECURSIVE from_child(_)
anno(link) ==
    IF link.anno # None THEN link.anno[1] ELSE from_child(link.node)

\* (mutant) a cardinality that counts a Node bucket as one entry
from_child_shallow(hamt) ==
    LET contribution(i) ==
            CASE hamt[i].kind = "Empty" -> 0
              [] hamt[i].kind = "Leaf" -> 1
              [] hamt[i].kind = "Node" -> 1
    IN  contribution(1) + contribution(2) + contribution(3) + contribution(4)

from_child(hamt) ==
    LET contribution(i) ==
            CASE hamt[i].kind = "Empty" -> 0
              [] hamt[i].kind = "Leaf" -> 1
              [] hamt[i].kind = "Node" -> anno(hamt[i])
    IN  contribution(1) + contribution(2) + contribution(3) + contribution(4)

\* The link after Link::anno was called on it: the computed value is cached,
\* and so are the values of the links below that the computation read.
RECURSIVE anno_cached(_)
anno_cached(link) ==
    IF link.anno # None
    THEN link
    ELSE [link EXCEPT
            !.node = [i \in 1..4 |->
                        IF link.node[i].kind = "Node"
                        THEN anno_cached(link.node[i])
                        ELSE link.node[i]],
            !.anno = Some(from_child(link.node))]

\* ---- nth -----------------------------------------------------------------
\* Walker for Index at one level: scan the children from offset i with the
\* remaining rank idx.
RECURSIVE Index_scan(_, _, _)

\* (mutant) an Index walker that enters a Link when the rank equals its count
Index_scan_offByOne(level, i, idx) ==
    LET c == child(level, i)
    IN  CASE c.kind = "Leaf" ->
               IF idx = 0
               THEN [step |-> "Found", ofs |-> i, idx |-> idx]
               ELSE Index_scan(level, i + 1, idx - 1)
          [] c.kind = "Link" ->
               LET n == anno(c.nd)
               IN  IF idx <= n
                   THEN [step |-> "Into", ofs |-> i, idx |-> idx]
                   ELSE Index_scan(level, i + 1, idx - n)
          [] c.kind = "Empty" -> Index_scan(level, i + 1, idx)
          [] c.kind = "End" -> [step |-> "Abort", ofs |-> i, idx |-> idx]

Index_scan(level, i, idx) ==
    LET c == child(level, i)
    IN  CASE c.kind = "Leaf" ->
               IF idx = 0
               THEN [step |-> "Found", ofs |-> i, idx |-> idx]
               ELSE Index_scan(level, i + 1, idx - 1)
          [] c.kind = "Link" ->
               LET n == anno(c.nd)
               IN  IF idx < n
                   THEN [step |-> "Into", ofs |-> i, idx |-> idx]
                   ELSE Index_scan(level, i + 1, idx - n)
          [] c.kind = "Empty" -> Index_scan(level, i + 1, idx)
          [] c.kind = "End" -> [step |-> "Abort", ofs |-> i, idx |-> idx]

\* (mutant) an Index walker that starts its scan at the second child
Index_walk_fromOne(level, idx) == Index_scan(level, 1, idx)

Index_walk(level, idx) == Index_scan(level, 0, idx)

\* The branch engine driving an Index walker
RECURSIVE walk_index(_, _)
walk_index(self, idx) ==
    LET st == Index_walk(self, idx)
    IN  CASE st.step = "Abort" -> None
          [] st.step = "Found" -> Some(child(self, st.ofs).kv)
          [] st.step = "Into" ->
               walk_index(child(self, st.ofs).nd.node, st.idx)

\* Hamt::nth
nth(self, index) == walk_index(self, index)

\* The node after an Index walk went through it: every link the walker
\* asked for its annotation now has it cached.
RECURSIVE nth_touched(_, _)
nth_touched(self, idx) ==
    LET st == Index_walk(self, idx)
        read(i) == \/ st.step = "Abort"
                   \/ st.step = "Found" /\ i - 1 < st.ofs
                   \/ st.step = "Into" /\ i - 1 <= st.ofs
        seen == [i \in 1..4 |->
                    IF self[i].kind = "Node" /\ read(i)
                    THEN anno_cached(self[i])
                    ELSE self[i]]
    IN  IF st.step = "Into"
        THEN [seen EXCEPT ![st.ofs + 1].node =
                              nth_touched(seen[st.ofs + 1].node, st.idx)]
        ELSE seen

\* ---- iteration -----------------------------------------------------------
\* The walk over all leaves: children in offset order, a Link entered
\* before the next sibling is looked at.
RECURSIVE all_from(_, _)
all_from(self, ofs) ==
    LET c == child(self, ofs)
    IN  CASE c.kind = "End" -> <<>>
          [] c.kind = "Empty" -> all_from(self, ofs + 1)
          [] c.kind = "Leaf" -> <<c.kv>> \o all_from(self, ofs + 1)
          [] c.kind = "Link" ->
               all_from(c.nd.node, 0) \o all_from(self, ofs + 1)

iterate(self) == all_from(self, 0)

\* ---- persistence ---------------------------------------------------------
\* Persistance::persist: the nodes are written to the store children first,
\* each under a fresh identity (its position in the store); a Link is stored
\* as the identity of its child.  The result is the store and the identity
\* of the node.
RECURSIVE persist_node(_, _)
persist_bucket(acc, b) ==
    IF b.kind = "Node"
    THEN LET r == persist_node(acc.store, b.node)
         IN  [store |-> r.store,
              buckets |-> Append(acc.buckets, [kind |-> "Stored", id |-> r.id])]
    ELSE [store |-> acc.store, buckets |-> Append(acc.buckets, b)]

persist_node(store, node) ==
    LET a1 == persist_bucket([store |-> store, buckets |-> <<>>], node[1])
        a2 == persist_bucket(a1, node[2])
        a3 == persist_bucket(a2, node[3])
        a4 == persist_bucket(a3, node[4])
    IN  [store |-> Append(a4.store, a4.buckets), id |-> Len(a4.store) + 1]

persist(self) == persist_node(<<>>, self)

\* restore followed by Hamt::from_generic: a map of its own built from the
\* stored nodes, every stored identity dereferenced into a fresh Link
RECURSIVE restore(_, _)
restore(store, id) ==
    [i \in 1..4 |->
        LET b == store[id][i]
        IN  IF b.kind = "Stored"
            THEN LinkNew(restore(store, b.id))
            ELSE b]

\* the keys of a set in ascending order: `for i in 0..n`
RECURSIVE ascending(_)
ascending(S) ==
    IF S = {}
    THEN <<>>
    ELSE LET m == CHOOSE x \in S : \A y \in S : x <= y
         IN  <<m>> \o ascending(S \ {m})

\* remove called for each key of a sequence in turn: the map left and the
\* values returned
RECURSIVE remove_each(_, _)
remove_each(self, ks) ==
    IF ks = <<>>
    THEN [node |-> self, rets |-> <<>>]
    ELSE LET r == remove(self, Head(ks))
             rest == remove_each(r.node, Tail(ks))
         IN  [node |-> rest.node, rets |-> <<r.ret>> \o rest.rets]

\* ---- state ---------------------------------------------------------------
VARIABLES
    root,      \* the map: the root Hamt
    model,     \* the bindings the callers have made: key -> Option<val>
    last,      \* the last operation: its name, arguments and return value
    clean,     \* no remove of an absent key has been called so far
    status     \* "ok", or "overflow" once a call exhausted the stack

vars == <<root, model, last, clean, status>>

Init ==
    /\ root = HamtNew
    /\ model = [k \in Keys |-> None]
    /\ last = [op |-> "new", key |-> 0, val |-> 0, ret |-> None]
    /\ clean = TRUE
    /\ status = "ok"

\* insert(k, v): when the call exhausts the stack the process is gone and
\* nothing happens after it
InsertKV(k, v) ==
    LET r == insert(root, k, v)
    IN  /\ status = "ok"
        /\ last' = [op |-> "insert", key |-> k, val |-> v, ret |-> r.ret]
        /\ IF r.ok
           THEN /\ root' = r.node
                /\ model' = [model EXCEPT ![k] = Some(v)]
                /\ status' = "ok"
           ELSE /\ root' = root
                /\ model' = model
                /\ status' = "overflow"
        /\ UNCHANGED clean

Insert == \E k \in Keys, v \in Vals : InsertKV(k, v)

\* the inserts of the nth and iterate tests: every key is its own value
InsertSelf == \E k \in Keys : InsertKV(k, k)

Remove ==
    \E k \in Keys :
        LET r == remove(root, k)
        IN  /\ status = "ok"
            /\ root' = r.node
            /\ model' = [model EXCEPT ![k] = None]
            /\ last' = [op |-> "remove", key |-> k, val |-> 0, ret |-> r.ret]
            /\ clean' = (clean /\ model[k] # None)
            /\ status' = "ok"

Get ==
    \E k \in Keys :
        /\ status = "ok"
        /\ last' = [op |-> "get", key |-> k, val |-> 0, ret |-> get(root, k)]
        /\ UNCHANGED <<root, model, clean, status>>

Nth ==
    \E i \in Ranks :
        /\ status = "ok"
        /\ root' = nth_touched(root, i)
        /\ last' = [op |-> "nth", key |-> i, val |-> 0, ret |-> nth(root, i)]
        /\ UNCHANGED <<model, clean, status>>

Iterate ==
    /\ status = "ok"
    /\ last' = [op |-> "iterate", key |-> 0, val |-> 0, ret |-> iterate(root)]
    /\ UNCHANGED <<root, model, clean, status>>

\* get_mut(k), and a write of v through the handle when there is one: v is
\* a value no insert of a key as its own value put.  The bindings the
\* callers made change when k is one of them.
GetMut ==
    \E k \in Keys, v \in Vals \ Keys :
        LET h == get_mut(root, k)
        IN  /\ status = "ok"
            /\ last' = [op |-> "get_mut", key |-> k, val |-> v, ret |-> h]
            /\ IF h # None
               THEN /\ root' = deref_mut(root, h[1], v)
                    /\ model' = IF model[k] # None
                                THEN [model EXCEPT ![k] = Some(v)]
                                ELSE model
               ELSE UNCHANGED <<root, model>>
            /\ UNCHANGED <<clean, status>>

\* The map operations
Next == Insert \/ Remove \/ Get

Spec == Init /\ [][Next]_vars

\* The operations of a Cardinality-annotated map
NextCard == InsertSelf \/ Remove \/ Nth \/ Iterate

SpecCard == Init /\ [][NextCard]_vars

\* The operations of a map whose values are updated in place
NextMut == InsertSelf \/ Remove \/ GetMut

SpecMut == Init /\ [][NextMut]_vars

\* slot as a function of its own: a digest of the whole range of u64 and a
\* depth that _insert, _remove or a PathWalker reaches
InitSlot ==
    /\ root = HamtNew
    /\ model = [k \in Keys |-> None]
    /\ \E digest \in 0..U64_MAX, depth \in 0..MaxDepth :
          last = [op |-> "input", key |-> digest, val |-> depth, ret |-> None]
    /\ clean = TRUE
    /\ status = "ok"

\* slot(digest, depth).  When the sum overflows, a build with overflow
\* checks panics and a build without them goes on with the wrapped sum.
SlotCall ==
    /\ last.op = "input"
    /\ \E build \in {"debug", "release"} :
          IF build = "debug" /\ slot_overflows(last.key, last.val)
          THEN /\ last' = [last EXCEPT !.op = "slot"]
               /\ status' = "panic"
          ELSE /\ last' = [last EXCEPT !.op = "slot",
                                       !.ret = Some(slot(last.key, last.val))]
               /\ status' = "ok"
    /\ UNCHANGED <<root, model, clean>>

NextSlot == SlotCall

SpecSlot == InitSlot /\ [][NextSlot]_vars

\* ---- vocabulary of the properties ----------------------------------------
\* the leaves held anywhere in the trie
RECURSIVE Leaves(_)
Leaves(node) ==
    UNION {CASE node[i].kind = "Leaf" -> {node[i]}
             [] node[i].kind = "Node" -> Leaves(node[i].node)
             [] OTHER -> {} : i \in 1..4}

KeysOf(node) == {l.key : l \in Leaves(node)}

\* the links held anywhere in the trie
RECURSIVE Links(_)
Links(node) ==
    UNION {IF node[i].kind = "Node"
           THEN {node[i]} \cup Links(node[i].node)
           ELSE {} : i \in 1..4}

\* the number of Leaf buckets in the subtree of a node
RECURSIVE CountLeaves(_)
CountLeaves(node) ==
    LET n(i) == CASE node[i].kind = "Leaf" -> 1
                  [] node[i].kind = "Node" -> CountLeaves(node[i].node)
                  [] OTHER -> 0
    IN  n(1) + n(2) + n(3) + n(4)

\* the buckets of every node, cached annotations left out
RECURSIVE Shape(_)
Shape(node) ==
    [i \in 1..4 |->
        IF node[i].kind = "Node"
        THEN [kind |-> "Node", node |-> Shape(node[i].node)]
        ELSE node[i]]

\* the keys the callers have put and not removed
Present == {k \in Keys : model[k] # None}

\* ---- C1 ------------------------------------------------------------------
\* C1: remove(k) for a key k that is not present returns None and leaves
\* the map exactly as it was: every bucket of every node is unchanged and
\* get(k2) answers as before for every key k2.
C1_RemoveAbsentLeavesMap ==
    [][(last'.op = "remove" /\ model[last'.key] = None)
          => /\ last'.ret = None
             /\ Shape(root') = Shape(root)
             /\ \A k2 \in Keys : get(root', k2) = get(root, k2)]_vars

\* ---- C2 ------------------------------------------------------------------
\* C2: in every map reached by inserts and removes, right after insert(k, v)
\* has returned, get(k) is Some(v).
C2_InsertThenGet ==
    (last.op = "insert" /\ status = "ok")
        => get(root, last.key) = Some(last.val)

\* an insert has returned that put its key below a Link of the root
C2_Witness ==
    /\ last.op = "insert"
    /\ status = "ok"
    /\ root[slot(hash(last.key), 0) + 1].kind = "Node"
    /\ get(root, last.key) = Some(last.val)

\* ---- C3 ------------------------------------------------------------------
\* C3: get never answers with the value stored under another key: when k1
\* is in the map and k2 # k1 with the same digest is not, get(k2) is None.
C3_GetFiltersByKey ==
    \A k1, k2 \in Keys :
        (k1 # k2 /\ hash(k1) = hash(k2)
            /\ k1 \in KeysOf(root) /\ k2 \notin KeysOf(root)
            /\ model[k2] = None)
        => get(root, k2) = None

\* ---- C4 ------------------------------------------------------------------
\* C4: insert(k, v2) on a map where k is present with value v1 returns
\* Some(v1), leaves the set of keys in the map unchanged, and get(k) is
\* Some(v2) afterwards; insert(k, v) where k is absent returns None.
\* A key is present in a map when one of its leaves holds it.
C4_InsertReplaces ==
    [][(last'.op = "insert" /\ status' = "ok")
          => LET k == last'.key
             IN  /\ \A v1 \in Vals :
                       Leaf(k, v1) \in Leaves(root)
                           => /\ last'.ret = Some(v1)
                              /\ KeysOf(root') = KeysOf(root)
                              /\ get(root', k) = Some(last'.val)
                 /\ k \notin KeysOf(root) => last'.ret = None]_vars

\* an insert has replaced another value of its key, held below a Link
C4_Witness ==
    /\ last.op = "insert"
    /\ status = "ok"
    /\ last.ret # None
    /\ last.ret # Some(last.val)
    /\ root[slot(hash(last.key), 0) + 1].kind = "Node"
    /\ get(root, last.key) = Some(last.val)

\* ---- C5 ------------------------------------------------------------------
\* C5: remove(k) on a map where k is present with value v returns Some(v);
\* afterwards get(k) is None and a second remove(k) returns None.  This
\* holds for every key of a map built by inserts, the keys removed in any
\* order: after a remove of a present key, or the second remove of the key
\* just removed, every key put and not removed is still removed with its
\* value.
C5_RemoveReturnsValue ==
    [][(/\ last'.op = "remove"
        /\ clean
        /\ \/ model[last'.key] # None
           \/ last.op = "remove" /\ last.key = last'.key)
          => LET k == last'.key
             IN  /\ model[k] # None => last'.ret = model[k]
                 /\ get(root', k) = None
                 /\ remove(root', k).ret = None
                 /\ \A k2 \in Keys :
                       model'[k2] # None
                           => remove(root', k2).ret = model'[k2]]_vars

\* ---- C6 ------------------------------------------------------------------
\* C6: insert(key, val) always completes and returns, also when the digest
\* of the new key equals that of another key stored at the Leaf reached:
\* the split resolves the collision and both keys are in the map afterwards.
C6_InsertCompletes ==
    [][last'.op = "insert"
          => /\ status' = "ok"
             /\ KeysOf(root') = KeysOf(root) \cup {last'.key}]_vars

\* ---- C7 ------------------------------------------------------------------
\* the root holds the pair (k, v) in a Leaf and nothing else
RootIsSingleLeaf(k, v) ==
    \E i \in 1..4 :
        /\ root[i] = Leaf(k, v)
        /\ \A j \in (1..4) \ {i} : root[j] = Empty

\* C7: after inserts and removes of inserted keys that leave one key, the
\* surviving pair is in a Leaf directly in the root and the root holds no
\* Link; when they leave no key, the 4 buckets of the root are Empty.
C7_CollapseToRoot ==
    clean =>
        /\ \A k \in Keys :
              Present = {k} => RootIsSingleLeaf(k, model[k][1])
        /\ Present = {} => root = HamtNew

\* a remove has just left one key, which shared the slots of the removed
\* key at depths 0 and 1: it was promoted from two levels below the root
C7_Witness ==
    /\ clean
    /\ last.op = "remove"
    /\ last.ret # None
    /\ \E k \in Keys :
          /\ Present = {k}
          /\ slot(hash(k), 0) = slot(hash(last.key), 0)
          /\ slot(hash(k), 1) = slot(hash(last.key), 1)
          /\ RootIsSingleLeaf(k, model[k][1])

\* ---- C8 ------------------------------------------------------------------
\* C8: in a Cardinality-annotated map, after any inserts and removes, the
\* annotation read from every Link is the number of Leaf buckets in the
\* subtree under that Link.
C8_CardinalityExact ==
    \A l \in Links(root) : anno(l) = CountLeaves(l.node)

\* an insert went through a Link whose annotation had been cached: the
\* Link now covers 3 leaves, and a Link below it still has its cache
C8_Witness ==
    /\ last.op = "insert"
    /\ \E l \in Links(root) :
          /\ l.anno = None
          /\ CountLeaves(l.node) = 3
          /\ \E l2 \in Links(l.node) : l2.anno = Some(2)

\* ---- C9 ------------------------------------------------------------------
\* C9: for a Cardinality-annotated map holding N keys, nth(i) is a leaf for
\* every i in 0..N-1, these N leaves are pairwise distinct and are exactly
\* the leaves of the map, and nth(i) is None for every i >= N.  While no
\* remove of an absent key was called, N is the number of keys put and not
\* removed.
C9_NthEnumerates ==
    LET N == CountLeaves(root)
    IN  /\ \A i \in Ranks : (i < N) <=> (nth(root, i) # None)
        /\ \A i, j \in 0..(N - 1) :
              i # j => nth(root, i) # nth(root, j)
        /\ {nth(root, i)[1] : i \in 0..(N - 1)} = Leaves(root)
        /\ clean => N = Cardinality(Present)

\* nth has just answered with a leaf found below a Link, past a leaf of the
\* root, in a map of at least 3 keys
C9_Witness ==
    /\ last.op = "nth"
    /\ last.ret # None
    /\ last.key >= 1
    /\ CountLeaves(root) >= 3
    /\ \A i \in 1..4 : root[i] # last.ret[1]
    /\ \E i \in 1..4 : root[i].kind = "Leaf"

\* ---- C10 -----------------------------------------------------------------
\* C10: full iteration yields every key held in the map exactly once and no
\* other key, whatever inserts and removes built the map.  While no remove
\* of an absent key was called, these are the keys put and not removed.
C10_IterationComplete ==
    LET seq == iterate(root)
    IN  /\ {seq[i].key : i \in 1..Len(seq)} = KeysOf(root)
        /\ \A i, j \in 1..Len(seq) : i # j => seq[i].key # seq[j].key
        /\ Len(seq) = CountLeaves(root)
        /\ clean => {seq[i].key : i \in 1..Len(seq)} = Present

\* an iteration has just yielded 3 keys or more from a trie with two Links,
\* after a remove of a key that had been put
C10_Witness ==
    /\ last.op = "iterate"
    /\ Len(last.ret) >= 3
    /\ Cardinality(Links(root)) >= 2
    /\ \E k \in Keys : model[k] = None /\ k \notin KeysOf(root)

\* ---- C11 -----------------------------------------------------------------
\* C11: for a Cardinality-annotated map holding N keys, the leaves produced
\* by full iteration are, position by position, nth(0), nth(1), ...,
\* nth(N - 1): rank i designates leaf i of the walk that visits the buckets
\* 0..3 of a node in order and enters a Link before its next sibling.
C11_IterateIsNthOrder ==
    LET seq == iterate(root)
    IN  \A i \in 0..(Len(seq) - 1) : nth(root, i) = Some(seq[i + 1])

\* an iteration has just yielded 3 leaves or more, a leaf found below a Link
\* of the root coming before a leaf found in a later bucket of the root
C11_Witness ==
    /\ last.op = "iterate"
    /\ Len(last.ret) >= 3
    /\ \E i, j \in 1..4 :
          /\ i < j
          /\ root[i].kind = "Node"
          /\ root[j].kind = "Leaf"
          /\ \E p, q \in 1..Len(last.ret) :
                /\ p < q
                /\ last.ret[p] \in Leaves(root[i].node)
                /\ last.ret[q] = root[j]
                /\ nth(root, q - 1) = Some(root[j])

\* ---- C12 -----------------------------------------------------------------
\* C12: get_mut(k) returns None for every key k that is not in the map
\* (never inserted, or removed since), whatever other keys the map holds:
\* a get_mut that has just answered for such a key answered None.
C12_GetMutAbsentIsNone ==
    (last.op = "get_mut" /\ model[last.key] = None
        /\ last.key \notin KeysOf(root))
    => last.ret = None

\* ---- C19 -----------------------------------------------------------------
\* the buckets of every node with the values left out
RECURSIVE Skeleton(_)
Skeleton(node) ==
    [i \in 1..4 |->
        CASE node[i].kind = "Node" ->
               [kind |-> "Node", node |-> Skeleton(node[i].node)]
          [] node[i].kind = "Leaf" -> [kind |-> "Leaf", key |-> node[i].key]
          [] OTHER -> node[i]]

\* C19: a write through the handle that get_mut(k) returns for a key k held
\* in the map changes the value of k only: get(k) is the written value
\* afterwards, the leaf of every other key is as it was and so is what get
\* answers for it, and the trie has the same buckets at every position.
C19_WriteThroughHandle ==
    [][(last'.op = "get_mut" /\ last'.key \in KeysOf(root))
          => LET k == last'.key
             IN  /\ last'.ret # None
                 /\ get(root', k) = Some(last'.val)
                 /\ \A k2 \in KeysOf(root) \ {k} :
                       get(root', k2) = get(root, k2)
                 /\ {l \in Leaves(root') : l.key # k}
                       = {l \in Leaves(root) : l.key # k}
                 /\ Skeleton(root') = Skeleton(root)]_vars

\* a write through a handle has just changed the value of a key held two
\* levels below the root, in a map of 3 keys or more
C19_Witness ==
    /\ last.op = "get_mut"
    /\ last.ret # None
    /\ Len(last.ret[1]) = 3
    /\ last.key \in KeysOf(root)
    /\ get(root, last.key) = Some(last.val)
    /\ Cardinality(KeysOf(root)) >= 3

CountKind(node, kind) == Cardinality({i \in 1..4 : node[i].kind = kind})

\* C14: after any inserts and removes, every node that is the target of a
\* Link, at any depth, has 2 Leaf buckets or more in its subtree: no Link
\* points to a node whose buckets are all Empty, or to a node holding one
\* Leaf and three Empty buckets.
C14_LinkHoldsTwoLeaves ==
    \A l \in Links(root) :
        /\ CountLeaves(l.node) >= 2
        /\ CountKind(l.node, "Empty") # 4
        /\ ~(CountKind(l.node, "Leaf") = 1 /\ CountKind(l.node, "Empty") = 3)

\* a remove has just taken a key from below a Link of the root, and the
\* Link is still there: its node holds the two keys left
C14_Witness ==
    /\ last.op = "remove"
    /\ last.ret # None
    /\ LET b == root[slot(hash(last.key), 0) + 1]
       IN  /\ b.kind = "Node"
           /\ CountLeaves(b.node) = 2

\* ---- C15 -----------------------------------------------------------------
\* every Leaf of the subtree of a node at a depth is in the bucket that the
\* slot of its own key selects, at that depth and at every depth below
RECURSIVE OnSlotPath(_, _)
OnSlotPath(node, depth) ==
    \A i \in 1..4 :
        CASE node[i].kind = "Leaf" ->
               slot(hash(node[i].key), depth) = i - 1
          [] node[i].kind = "Node" ->
               /\ \A k \in KeysOf(node[i].node) :
                     slot(hash(k), depth) = i - 1
               /\ OnSlotPath(node[i].node, depth + 1)
          [] OTHER -> TRUE

\* C15: after any inserts and removes, every Leaf lies on the slot path of
\* its own key, and no key is held by more than one Leaf of the trie.
C15_LeafOnSlotPath ==
    /\ OnSlotPath(root, 0)
    /\ CountLeaves(root) = Cardinality(KeysOf(root))

\* a remove has just promoted a Leaf into the bucket of the root that the
\* slot of the removed key selects, in a map holding 2 keys or more
C15_Witness ==
    /\ last.op = "remove"
    /\ \E i \in 1..4 :
          /\ root[i].kind = "Leaf"
          /\ slot(hash(last.key), 0) = i - 1
          /\ model[root[i].key] # None
    /\ CountLeaves(root) >= 2

\* ---- C17 -----------------------------------------------------------------
\* C17 as stated: after any inserts and removes, every node reachable as a
\* Link target has 2 non-Empty buckets or more.
C17_NoPassThrough ==
    \A l \in Links(root) : CountKind(l.node, "Empty") <= 2

\* C17 as amended: every node reachable as a Link target has 2 non-Empty
\* buckets or more, or exactly one non-Empty bucket that holds a Link (the
\* node a split makes for two keys that share the slot at the next depth).
C17_PassThroughOnlyToLink ==
    \A l \in Links(root) :
        \/ CountKind(l.node, "Empty") <= 2
        \/ CountKind(l.node, "Empty") = 3 /\ CountKind(l.node, "Node") = 1

\* an insert has just split a Leaf into a node whose only bucket in use is a
\* Link to the node holding both keys
C17_Witness ==
    /\ last.op = "insert"
    /\ status = "ok"
    /\ \E l \in Links(root) :
          /\ CountKind(l.node, "Empty") = 3
          /\ CountKind(l.node, "Node") = 1
          /\ last.key \in KeysOf(l.node)
          /\ CountLeaves(l.node) = 2

\* ---- C16 -----------------------------------------------------------------
\* C16: insert(k, v) and remove(k) change the binding of k only: for every
\* other key k2, get(k2) answers after the operation what it answered
\* before it.
C16_OtherBindingsKept ==
    [][(last'.op \in {"insert", "remove"} /\ status' = "ok")
          => \A k2 \in Keys \ {last'.key} :
                get(root', k2) = get(root, k2)]_vars

\* ---- C18 -----------------------------------------------------------------
\* the levels the engine hands to a path walker for a digest, each with the
\* number of calls made before: the node, then the child of each Link met
\* in the bucket the slot of that level selects
RECURSIVE Levels(_, _, _)
Levels(node, digest, d) ==
    LET b == node[slot(digest, d) + 1]
    IN  {[level |-> node, depth |-> d]}
            \cup (IF b.kind = "Node"
                  THEN Levels(b.node, digest, d + 1)
                  ELSE {})

\* C18 as stated: the path walker called at level d probes the bucket at
\* slot(digest, d) only and returns Found(slot) when it is a Leaf,
\* Into(slot) when it is a Link and Abort when it is Empty; its depth
\* advances by one per call.
C18_WalkerSteps ==
    \A k \in Keys :
        \A lv \in Levels(root, hash(k), 0) :
            LET st == PathWalker_walk(lv.level, hash(k), lv.depth)
                b == lv.level[slot(hash(k), lv.depth) + 1]
            IN  /\ b.kind = "Leaf"
                      => st.step = "Found" /\ st.ofs = slot(hash(k), lv.depth)
                /\ b.kind = "Node"
                      => st.step = "Into" /\ st.ofs = slot(hash(k), lv.depth)
                /\ b.kind = "Empty" => st.step = "Abort"
                /\ st.depth = lv.depth + 1

\* C18 as amended: the path walker called at level d probes the bucket at
\* slot(digest, d) only and returns Found(slot) when it is a Leaf and also
\* when it is a Link, and Abort when it is Empty; its depth advances by one
\* per call, so that the walk for a key held in the map ends at the Leaf of
\* that key.
C18_WalkerFindsLeafOrLink ==
    \A k \in Keys :
        /\ \A lv \in Levels(root, hash(k), 0) :
              LET st == PathWalker_walk(lv.level, hash(k), lv.depth)
                  b == lv.level[slot(hash(k), lv.depth) + 1]
              IN  /\ b.kind \in {"Leaf", "Node"}
                        => /\ st.step = "Found"
                           /\ st.ofs = slot(hash(k), lv.depth)
                  /\ b.kind = "Empty" => st.step = "Abort"
                  /\ st.depth = lv.depth + 1
        /\ k \in KeysOf(root)
              => /\ walk_path(root, hash(k), 0) # None
                 /\ walk_path(root, hash(k), 0)[1].key = k

\* a key is held two levels below the root: the walker is called at three
\* levels for it, finds a Link twice and then the Leaf of the key
C18_Witness ==
    \E k \in KeysOf(root) :
        /\ Cardinality(Levels(root, hash(k), 0)) = 3
        /\ walk_path(root, hash(k), 0)[1].key = k
        /\ PathWalker_walk(root, hash(k), 0).step = "Found"
        /\ root[PathWalker_walk(root, hash(k), 0).ofs + 1].kind = "Node"

\* ---- C20 -----------------------------------------------------------------
\* the keys of a set in descending order
RECURSIVE descending(_)
descending(S) ==
    IF S = {}
    THEN <<>>
    ELSE LET m == CHOOSE x \in S : \A y \in S : x >= y
         IN  <<m>> \o descending(S \ {m})

\* the map after insert was called for each key of a sequence in turn, with
\* the value a function gives for it
RECURSIVE insert_each(_, _, _)
insert_each(self, ks, v) ==
    IF ks = <<>>
    THEN self
    ELSE insert_each(insert(self, Head(ks), v[Head(ks)]).node, Tail(ks), v)

\* C20: the shape of the trie is a function of what it holds: the root
\* reached by any inserts and removes has, at every position, the bucket
\* that the root of a new map has after its pairs were inserted in
\* ascending order of the keys, and in descending order.  While no remove
\* of an absent key was called, the pairs held are the bindings made.
C20_ShapeFromContents ==
    LET held == KeysOf(root)
        v == [k \in held |-> (CHOOSE l \in Leaves(root) : l.key = k).val]
    IN  /\ Shape(root) = Shape(insert_each(HamtNew, ascending(held), v))
        /\ Shape(root) = Shape(insert_each(HamtNew, descending(held), v))
        /\ clean => /\ held = Present
                    /\ \A k \in held : model[k] = Some(v[k])

\* a remove has just left 3 keys or more, one of them two levels below the
\* root, and one of them with the second value: the root is the one that
\* the inserts of the pairs left build
C20_Witness ==
    /\ last.op = "remove"
    /\ last.ret # None
    /\ Cardinality(KeysOf(root)) >= 3
    /\ \E l \in Links(root) : Links(l.node) # {}
    /\ \E l \in Leaves(root) : l.val # 0

\* ---- C21 -----------------------------------------------------------------
\* C21: for every digest of the range of u64 and every depth reached,
\* slot(digest, depth) is computed without overflow of the sum
\* digest + depth and yields an index in 0..3.
C21_SlotNeverOverflows ==
    last.op = "slot"
        => /\ ~slot_overflows(last.key, last.val)
           /\ status = "ok"
           /\ last.ret # None
           /\ last.ret[1] \in 0..3
====
